---- MODULE Spec2Model ----
(***************************************************************************)
(* Happy Thoughts API: the Express/Mongoose server with token              *)
(* authentication (src/unnamed/part_001), and the thought query builder    *)
(* of its three versions (src/unnamed/part_000, src/server.js).            *)
(*                                                                         *)
(* Every await of a handler is one step: other requests run between the    *)
(* awaits of a request, never inside the synchronous code between them.    *)
(***************************************************************************)
EXTENDS Integers, Sequences, FiniteSets, TLC

VARIABLES users, thoughts, nextId, inflight

vars == <<users, thoughts, nextId, inflight>>

(***************************************************************************)
(* Bounds of the model.                                                    *)
(***************************************************************************)
MaxUsers == 2
MaxThoughts == 1
MaxHearts == 2
MaxInFlight == 2

(***************************************************************************)
(* JavaScript values: undefined, null, booleans and strings.  A string is  *)
(* held run-length encoded: a sequence of runs <<c, n>>, n >= 1 copies of  *)
(* the character c; " " is the whitespace character.                       *)
(***************************************************************************)
Undefined == [t |-> "undefined"]
Null == [t |-> "null"]
Str(s) == [t |-> "string", s |-> s]
JSTrue == [t |-> "boolean", b |-> TRUE]

IsString(v) == v.t = "string"

RECURSIVE Length(_)
Length(s) == IF s = <<>> THEN 0 ELSE Head(s)[2] + Length(Tail(s))

Truthy(v) ==
    CASE v.t = "undefined" -> FALSE
      [] v.t = "null" -> FALSE
      [] v.t = "boolean" -> v.b
      [] v.t = "string" -> Length(v.s) > 0
      [] OTHER -> TRUE

Rep(c, n) == IF n > 0 THEN <<(<<c, n>>)>> ELSE <<>>
Pad(s) == Rep(" ", 1) \o s \o Rep(" ", 1)

RECURSIVE TrimStart(_)
TrimStart(s) ==
    IF s # <<>> /\ Head(s)[1] = " " THEN TrimStart(Tail(s)) ELSE s

RECURSIVE TrimEnd(_)
TrimEnd(s) ==
    IF s # <<>> /\ s[Len(s)][1] = " " THEN TrimEnd(SubSeq(s, 1, Len(s) - 1)) ELSE s

(* String.prototype.trim *)
Trim(s) == TrimEnd(TrimStart(s))

(***************************************************************************)
(* thoughtSchema: message is required, 5..140 characters, trimmed by a     *)
(* setter before the validators run.                                       *)
(***************************************************************************)
MinLength == 5
MaxLength == 140

(* The schema without trim: true. *)
CastMessageNoTrim(v) == v

CastMessage(v) == IF IsString(v) THEN Str(Trim(v.s)) ELSE v

MessageError(v) ==
    LET c == CastMessage(v) IN
    CASE ~IsString(c) -> "required"
      [] Length(c.s) = 0 -> "required"
      [] Length(c.s) < MinLength -> "minlength"
      [] Length(c.s) > MaxLength -> "maxlength"
      [] OTHER -> "none"

(***************************************************************************)
(* Identifiers.  ObjectIds are numbered in the order they are generated;   *)
(* their string form is what thoughtSchema.userId holds.                   *)
(***************************************************************************)
ObjectIdString(n) == Str(Rep("oid", 1) \o Rep("#", n))
Malformed == 0
ThoughtIds == 1..MaxThoughts
IdParams == ThoughtIds \cup {Malformed}

(***************************************************************************)
(* userSchema.accessToken: crypto.randomBytes(128).toString("hex"), a      *)
(* fresh value for every user.                                             *)
(***************************************************************************)
NewAccessToken(n) == <<"hex" \o ToString(n), 1>>
ForeignToken == <<"hex0", 1>>

(* bcrypt.hashSync(password, salt): throws unless password is a string. *)
HashThrows(password) == ~IsString(password)
HashSync(password) == Str(Rep("$2b$", 1) \o password.s)

(***************************************************************************)
(* The Authorization header: undefined, or a string.  Its runs are the     *)
(* piece "Bearer " and whole token texts, "hex" \o n the n-th token         *)
(* generated.                                                              *)
(***************************************************************************)
Bearer == <<"Bearer ", 1>>

RECURSIVE ReplaceFirst(_, _)
ReplaceFirst(s, piece) ==
    IF s = <<>> THEN <<>>
    ELSE IF Head(s) = piece THEN Tail(s)
    ELSE <<Head(s)>> \o ReplaceFirst(Tail(s), piece)

(* req.header("Authorization")?.replace("Bearer ", "") *)
ExtractToken(header) ==
    IF header = Undefined THEN Undefined ELSE Str(ReplaceFirst(header.s, Bearer))

(* A lookup that ignores the token: the first user, if any. *)
FindUserAnyToken(token) == IF Len(users) > 0 THEN 1 ELSE 0

(* User.findOne({ accessToken }): the first user whose token is the text. *)
FindUserByToken(token) ==
    LET hits == {i \in 1..Len(users) : <<users[i].accessToken>> = token.s}
    IN IF hits = {} THEN 0 ELSE CHOOSE i \in hits : \A j \in hits : i <= j

(***************************************************************************)
(* The response envelope {success, response, message} with its status.     *)
(* A step of a handler that ends at an await instead of answering sends    *)
(* Pending.                                                                *)
(***************************************************************************)
Res(status, text, body) == [status |-> status, message |-> text, response |-> body]
Pending == Res(0, "", Null)
Success(res) == res.status \in {200, 201}

ErrorBody(name) == [t |-> "error", name |-> name]
ErrorsBody(errs) == [t |-> "errors", errors |-> errs]
ThoughtBody(id, doc) ==
    [t |-> "thought", id |-> id, message |-> doc.message, hearts |-> doc.hearts,
     createdAt |-> doc.createdAt, userId |-> doc.userId]

(* A request in flight: the handler's position and the locals it still reads. *)
NoUser == 0
Idle == [pc |-> "idle"]
Slots == 1..MaxInFlight

(***************************************************************************)
(* POST /users.  The password is hashed before the document is built;      *)
(* save() validates the document, then inserts it, and the unique indexes  *)
(* on name and email reject a duplicate with code 11000.                   *)
(***************************************************************************)
RequiredString(v) == IsString(v) /\ Length(v.s) > 0

UserErrors(name, email) ==
    {f \in {"name", "email"} :
        ~RequiredString(IF f = "name" THEN name ELSE email)}

DuplicateKey(name, email) ==
    \E i \in 1..Len(users) : users[i].name = name \/ users[i].email = email

NewUser(name, email, password) ==
    [name |-> name, email |-> email, password |-> HashSync(password),
     accessToken |-> NewAccessToken(Len(users) + 1)]

PostUsersResult(name, email, password, storeOk) ==
    CASE HashThrows(password) ->
           [res |-> Res(500, "Failed to create user.", ErrorBody("Error")),
            users |-> users]
      [] UserErrors(name, email) # {} ->
           [res |-> Res(400, "Validation failed for user creation.",
                        ErrorsBody(UserErrors(name, email))),
            users |-> users]
      [] ~storeOk ->
           [res |-> Res(500, "Failed to create user.", ErrorBody("MongoNetworkError")),
            users |-> users]
      [] DuplicateKey(name, email) ->
           [res |-> Res(409, "User with this name or email already exists.",
                        ErrorBody("MongoServerError 11000")),
            users |-> users]
      [] OTHER ->
           [res |-> Res(201, "User created successfully",
                        [t |-> "user", id |-> Len(users) + 1,
                         accessToken |-> NewUser(name, email, password).accessToken,
                         name |-> name, email |-> email]),
            users |-> Append(users, NewUser(name, email, password))]

PostUsers(name, email, password, storeOk) ==
    LET r == PostUsersResult(name, email, password, storeOk)
    IN /\ Len(r.users) <= MaxUsers
       /\ users' = r.users
       /\ UNCHANGED <<thoughts, nextId, inflight>>

(***************************************************************************)
(* authenticateUser.  The outcome of the middleware for a header: the      *)
(* user it attaches (next is called), or the response it sends.            *)
(***************************************************************************)
AuthNoToken == "Unauthorized: No access token provided."
AuthInvalid == "Unauthorized: Access token invalid or missing."
AuthError == "Server error during authentication."

Authenticate(header, storeOk) ==
    LET accessToken == ExtractToken(header)
        user == FindUserByToken(accessToken)
    IN CASE ~Truthy(accessToken) ->
              [next |-> FALSE, user |-> NoUser, res |-> Res(401, AuthNoToken, Null)]
         [] ~storeOk ->
              [next |-> FALSE, user |-> NoUser,
               res |-> Res(500, AuthError, ErrorBody("MongoNetworkError"))]
         [] user # NoUser ->
              [next |-> TRUE, user |-> user, res |-> Pending]
         [] OTHER ->
              [next |-> FALSE, user |-> NoUser, res |-> Res(401, AuthInvalid, Null)]

(* GET /secrets: the handler answers as soon as the middleware calls next. *)
GetSecretsResult(header, storeOk) ==
    LET a == Authenticate(header, storeOk)
    IN IF a.next
       THEN Res(200, "Secret retrieved successfully.",
                [t |-> "secret", name |-> users[a.user].name])
       ELSE a.res

GetSecrets(header, storeOk) ==
    /\ GetSecretsResult(header, storeOk).status # 0
    /\ UNCHANGED vars

(* The middleware of POST /thoughts, DELETE /thoughts/:id, PATCH /thoughts/:id:
   on success the handler starts, and stops at its first await. *)
AsyncRoutes == {"POST /thoughts", "DELETE /thoughts/:id", "PATCH /thoughts/:id"}

ReceiveResult(route, header, storeOk) ==
    LET a == Authenticate(header, storeOk)
    IN [res |-> a.res,
        slot |-> IF a.next
                 THEN [pc |-> "handler", route |-> route, user |-> a.user]
                 ELSE Idle]

Receive(s, route, header, storeOk) ==
    /\ inflight[s] = Idle
    /\ inflight' = [inflight EXCEPT ![s] = ReceiveResult(route, header, storeOk).slot]
    /\ UNCHANGED <<users, thoughts, nextId>>

(***************************************************************************)
(* The Thought collection.                                                 *)
(***************************************************************************)
Exists(id) == id \in DOMAIN thoughts

Remove(id) == [i \in DOMAIN thoughts \ {id} |-> thoughts[i]]

Insert(id, doc) == [i \in DOMAIN thoughts \cup {id} |-> IF i = id THEN doc ELSE thoughts[i]]

(* The ownership check left out: every user passes. *)
IsOwnerAnyone(doc, user) == TRUE

(* thought.userId.toString() !== authenticatedUserId.toString() *)
IsOwner(doc, user) == doc.userId = ObjectIdString(user)

(* GET /thoughts/:id *)
GetThoughtResult(id, storeOk) ==
    CASE id = Malformed -> Res(400, "Invalid thought ID format.", ErrorBody("CastError"))
      [] ~storeOk ->
           Res(400, "Invalid thought ID format.", ErrorBody("MongoNetworkError"))
      [] ~Exists(id) -> Res(404, "Thought with id not found.", Null)
      [] OTHER ->
           Res(200, "Thought with id retrieved successfully.",
               ThoughtBody(id, thoughts[id]))

GetThought(id, storeOk) ==
    /\ GetThoughtResult(id, storeOk).status # 0
    /\ UNCHANGED vars

(* POST /thoughts: new Thought({message, userId}).save() *)
NewThought(message, user) ==
    [message |-> CastMessage(message), hearts |-> 0, createdAt |-> nextId,
     userId |-> ObjectIdString(user)]

PostThoughtsResult(h, message, storeOk) ==
    CASE MessageError(message) # "none" ->
           [res |-> Res(400, "Validation failed for thought creation.",
                        ErrorsBody([message |-> MessageError(message)])),
            thoughts |-> thoughts, nextId |-> nextId]
      [] ~storeOk ->
           [res |-> Res(500, "Failed to create thought.", ErrorBody("MongoNetworkError")),
            thoughts |-> thoughts, nextId |-> nextId]
      [] OTHER ->
           [res |-> Res(201, "Thought created successfully",
                        ThoughtBody(nextId, NewThought(message, h.user))),
            thoughts |-> Insert(nextId, NewThought(message, h.user)),
            nextId |-> nextId + 1]

PostThoughts(s, message, storeOk) ==
    LET h == inflight[s]
        r == PostThoughtsResult(h, message, storeOk)
    IN /\ h.pc = "handler" /\ h.route = "POST /thoughts"
       /\ r.nextId <= MaxThoughts + 1
       /\ thoughts' = r.thoughts
       /\ nextId' = r.nextId
       /\ inflight' = [inflight EXCEPT ![s] = Idle]
       /\ UNCHANGED users

(* PATCH /thoughts/:id/like: findByIdAndUpdate(id, {$inc: {hearts: 1}}, {new: true}) *)
(* An increment of 2 in place of 1. *)
IncHeartsTwice(doc) == [doc EXCEPT !.hearts = @ + 2]

IncHearts(doc) == [doc EXCEPT !.hearts = @ + 1]

LikeResult(coll, id, storeOk) ==
    CASE id = Malformed ->
           [res |-> Res(400, "Failed to like thought due to invalid ID or server error.",
                        ErrorBody("CastError")),
            thoughts |-> coll]
      [] ~storeOk ->
           [res |-> Res(400, "Failed to like thought due to invalid ID or server error.",
                        ErrorBody("MongoNetworkError")),
            thoughts |-> coll]
      [] id \notin DOMAIN coll ->
           [res |-> Res(404, "Thought could not be found to like.", Null),
            thoughts |-> coll]
      [] OTHER ->
           [res |-> Res(200, "Thought successfully liked.",
                        ThoughtBody(id, IncHearts(coll[id]))),
            thoughts |-> [coll EXCEPT ![id] = IncHearts(@)]]

Like(id, storeOk) ==
    LET r == LikeResult(thoughts, id, storeOk)
    IN /\ \A i \in DOMAIN r.thoughts : r.thoughts[i].hearts <= MaxHearts
       /\ thoughts' = r.thoughts
       /\ UNCHANGED <<users, nextId, inflight>>

(***************************************************************************)
(* DELETE /thoughts/:id: findById and the ownership check, then            *)
(* findByIdAndDelete.                                                      *)
(***************************************************************************)
DeleteFindResult(h, id, storeOk) ==
    CASE id = Malformed ->
           [res |-> Res(500, "Failed to delete thought.", ErrorBody("CastError")),
            slot |-> Idle]
      [] ~storeOk ->
           [res |-> Res(500, "Failed to delete thought.", ErrorBody("MongoNetworkError")),
            slot |-> Idle]
      [] ~Exists(id) ->
           [res |-> Res(404, "Thought could not be found, can't delete.", Null),
            slot |-> Idle]
      [] ~IsOwner(thoughts[id], h.user) ->
           [res |-> Res(403, "You are not authorized to delete this thought.", Null),
            slot |-> Idle]
      [] OTHER ->
           [res |-> Pending,
            slot |-> [pc |-> "delete", route |-> h.route, user |-> h.user, id |-> id]]

DeleteFind(s, id, storeOk) ==
    LET h == inflight[s]
    IN /\ h.pc = "handler" /\ h.route = "DELETE /thoughts/:id"
       /\ inflight' = [inflight EXCEPT ![s] = DeleteFindResult(h, id, storeOk).slot]
       /\ UNCHANGED <<users, thoughts, nextId>>

DeleteRemoveResult(h, storeOk) ==
    IF ~storeOk
    THEN [res |-> Res(500, "Failed to delete thought.", ErrorBody("MongoNetworkError")),
          thoughts |-> thoughts]
    ELSE [res |-> Res(200, "Thought was successfully deleted.",
                      IF Exists(h.id) THEN ThoughtBody(h.id, thoughts[h.id]) ELSE Null),
          thoughts |-> Remove(h.id)]

DeleteRemove(s, storeOk) ==
    LET h == inflight[s]
    IN /\ h.pc = "delete"
       /\ thoughts' = DeleteRemoveResult(h, storeOk).thoughts
       /\ inflight' = [inflight EXCEPT ![s] = Idle]
       /\ UNCHANGED <<users, nextId>>

(***************************************************************************)
(* PATCH /thoughts/:id: findById, the synchronous building of              *)
(* updateFields, then findByIdAndUpdate(id, updateFields,                  *)
(* {new: true, runValidators: true}).                                      *)
(***************************************************************************)
Max(a, b) == IF a >= b THEN a ELSE b

(* The decrement without Math.max. *)
UnlikeNoFloor(hearts) == hearts - 1

(* Math.max(0, thought.hearts - 1) *)
Unlike(hearts) == Max(0, hearts - 1)

(* updateFields: keys is the set of its keys; a key it lacks holds Undefined. *)
UpdateFields(doc, message, unlike) ==
    LET newHearts == IF Truthy(unlike) THEN Unlike(doc.hearts) ELSE doc.hearts
    IN [keys |-> (IF message # Undefined THEN {"message"} ELSE {})
                   \cup (IF newHearts # doc.hearts THEN {"hearts"} ELSE {}),
        message |-> message,
        hearts |-> IF newHearts # doc.hearts THEN [t |-> "number", n |-> newHearts]
                   ELSE Undefined]

(* The ownership check made for every PATCH, with or without a message. *)
PatchFindResultOwnerOnly(h, id, message, unlike, storeOk) ==
    CASE id = Malformed ->
           [res |-> Res(500, "Could not edit thought.", ErrorBody("CastError")),
            slot |-> Idle]
      [] ~storeOk ->
           [res |-> Res(500, "Could not edit thought.", ErrorBody("MongoNetworkError")),
            slot |-> Idle]
      [] ~Exists(id) ->
           [res |-> Res(404, "Thought could not be found.", Null), slot |-> Idle]
      [] ~IsOwner(thoughts[id], h.user) ->
           [res |-> Res(403, "You are not authorized to edit this thought's message.",
                        Null),
            slot |-> Idle]
      [] UpdateFields(thoughts[id], message, unlike).keys = {} ->
           [res |-> Res(200, "No valid update fields provided, thought not modified.",
                        ThoughtBody(id, thoughts[id])),
            slot |-> Idle]
      [] OTHER ->
           [res |-> Pending,
            slot |-> [pc |-> "update", route |-> h.route, user |-> h.user, id |-> id,
                      updateFields |-> UpdateFields(thoughts[id], message, unlike)]]

PatchFindResult(h, id, message, unlike, storeOk) ==
    CASE id = Malformed ->
           [res |-> Res(500, "Could not edit thought.", ErrorBody("CastError")),
            slot |-> Idle]
      [] ~storeOk ->
           [res |-> Res(500, "Could not edit thought.", ErrorBody("MongoNetworkError")),
            slot |-> Idle]
      [] ~Exists(id) ->
           [res |-> Res(404, "Thought could not be found.", Null), slot |-> Idle]
      [] message # Undefined /\ ~IsOwner(thoughts[id], h.user) ->
           [res |-> Res(403, "You are not authorized to edit this thought's message.",
                        Null),
            slot |-> Idle]
      [] UpdateFields(thoughts[id], message, unlike).keys = {} ->
           [res |-> Res(200, "No valid update fields provided, thought not modified.",
                        ThoughtBody(id, thoughts[id])),
            slot |-> Idle]
      [] OTHER ->
           [res |-> Pending,
            slot |-> [pc |-> "update", route |-> h.route, user |-> h.user, id |-> id,
                      updateFields |-> UpdateFields(thoughts[id], message, unlike)]]

PatchFind(s, id, message, unlike, storeOk) ==
    LET h == inflight[s]
    IN /\ h.pc = "handler" /\ h.route = "PATCH /thoughts/:id"
       /\ inflight' = [inflight EXCEPT ![s] =
                          PatchFindResult(h, id, message, unlike, storeOk).slot]
       /\ UNCHANGED <<users, thoughts, nextId>>

(* The update validators: they run on the keys of the update only. *)
UpdateError(fields) ==
    IF "message" \in fields.keys THEN MessageError(fields.message) ELSE "none"

(* The document after $set of the cast update. *)
ApplyUpdate(doc, fields) ==
    [doc EXCEPT
        !.message = IF "message" \in fields.keys THEN CastMessage(fields.message) ELSE @,
        !.hearts = IF "hearts" \in fields.keys THEN fields.hearts.n ELSE @]

(* The hearts of the update are written although its message is refused. *)
PatchUpdateResultPartial(h, storeOk) ==
    CASE UpdateError(h.updateFields) # "none" ->
           [res |-> Res(400, "Validation failed for thought update.",
                        ErrorsBody([message |-> UpdateError(h.updateFields)])),
            thoughts |-> IF Exists(h.id) /\ "hearts" \in h.updateFields.keys
                         THEN [thoughts EXCEPT ![h.id].hearts = h.updateFields.hearts.n]
                         ELSE thoughts]
      [] ~storeOk ->
           [res |-> Res(500, "Could not edit thought.", ErrorBody("MongoNetworkError")),
            thoughts |-> thoughts]
      [] ~Exists(h.id) ->
           [res |-> Res(404, "Thought could not be found after update attempt.", Null),
            thoughts |-> thoughts]
      [] OTHER ->
           [res |-> Res(200, "Thought was successfully updated.",
                        ThoughtBody(h.id, ApplyUpdate(thoughts[h.id], h.updateFields))),
            thoughts |-> [thoughts EXCEPT ![h.id] = ApplyUpdate(@, h.updateFields)]]

(* The update is run with upsert: a missing document is created. *)
PatchUpdateResultUpsert(h, storeOk) ==
    CASE UpdateError(h.updateFields) # "none" ->
           [res |-> Res(400, "Validation failed for thought update.",
                        ErrorsBody([message |-> UpdateError(h.updateFields)])),
            thoughts |-> thoughts]
      [] ~storeOk ->
           [res |-> Res(500, "Could not edit thought.", ErrorBody("MongoNetworkError")),
            thoughts |-> thoughts]
      [] OTHER ->
           LET doc == IF Exists(h.id) THEN thoughts[h.id]
                      ELSE [message |-> Str(Rep("a", MinLength)), hearts |-> 0,
                            createdAt |-> nextId, userId |-> ObjectIdString(h.user)]
           IN [res |-> Res(200, "Thought was successfully updated.",
                           ThoughtBody(h.id, ApplyUpdate(doc, h.updateFields))),
               thoughts |-> Insert(h.id, ApplyUpdate(doc, h.updateFields))]

PatchUpdateResult(h, storeOk) ==
    CASE UpdateError(h.updateFields) # "none" ->
           [res |-> Res(400, "Validation failed for thought update.",
                        ErrorsBody([message |-> UpdateError(h.updateFields)])),
            thoughts |-> thoughts]
      [] ~storeOk ->
           [res |-> Res(500, "Could not edit thought.", ErrorBody("MongoNetworkError")),
            thoughts |-> thoughts]
      [] ~Exists(h.id) ->
           [res |-> Res(404, "Thought could not be found after update attempt.", Null),
            thoughts |-> thoughts]
      [] OTHER ->
           [res |-> Res(200, "Thought was successfully updated.",
                        ThoughtBody(h.id, ApplyUpdate(thoughts[h.id], h.updateFields))),
            thoughts |-> [thoughts EXCEPT ![h.id] = ApplyUpdate(@, h.updateFields)]]

PatchUpdate(s, storeOk) ==
    LET h == inflight[s]
    IN /\ h.pc = "update"
       /\ thoughts' = PatchUpdateResult(h, storeOk).thoughts
       /\ inflight' = [inflight EXCEPT ![s] = Idle]
       /\ UNCHANGED <<users, nextId>>

(***************************************************************************)
(* The requests clients send.                                              *)
(***************************************************************************)
Names == {Undefined, Str(Rep("a", 1)), Str(Rep("b", 1))}
Emails == {Undefined, Str(Rep("a", 1) \o Rep("@", 1)), Str(Rep("b", 1) \o Rep("@", 1))}
Passwords == {Undefined, Str(Rep("p", 9))}

Headers ==
    {Undefined, Str(<<Bearer>>), Str(<<Bearer, ForeignToken>>)}
        \cup {Str(<<Bearer, NewAccessToken(n)>>) : n \in 1..MaxUsers}
        \cup {Str(<<NewAccessToken(1)>>)}

Messages ==
    {Undefined, Null,
     Str(Pad(Rep("a", MinLength - 1))), Str(Pad(Rep("a", MinLength))),
     Str(Pad(Rep("b", MaxLength))), Str(Rep("b", MaxLength + 1))}

Unlikes == {Undefined, JSTrue}

Init ==
    /\ users = <<>>
    /\ thoughts = <<>>
    /\ nextId = 1
    /\ inflight = [s \in Slots |-> Idle]

Next ==
    \/ \E n \in Names, e \in Emails, p \in Passwords, ok \in BOOLEAN : PostUsers(n, e, p, ok)
    \/ \E h \in Headers, ok \in BOOLEAN : GetSecrets(h, ok)
    \/ \E s \in Slots, r \in AsyncRoutes, h \in Headers, ok \in BOOLEAN : Receive(s, r, h, ok)
    \/ \E id \in IdParams, ok \in BOOLEAN : GetThought(id, ok)
    \/ \E s \in Slots, m \in Messages, ok \in BOOLEAN : PostThoughts(s, m, ok)
    \/ \E id \in IdParams, ok \in BOOLEAN : Like(id, ok)
    \/ \E s \in Slots, id \in IdParams, ok \in BOOLEAN : DeleteFind(s, id, ok)
    \/ \E s \in Slots, ok \in BOOLEAN : DeleteRemove(s, ok)
    \/ \E s \in Slots, id \in IdParams, m \in Messages, u \in Unlikes, ok \in BOOLEAN :
          PatchFind(s, id, m, u, ok)
    \/ \E s \in Slots, ok \in BOOLEAN : PatchUpdate(s, ok)

Spec == Init /\ [][Next]_vars

(***************************************************************************)
(* GET /thoughts: the thought query builder.                               *)
(***************************************************************************)
NaN == [t |-> "NaN"]
Num(n) == [t |-> "number", n |-> n]

RECURSIVE Chars(_)
Chars(s) ==
    IF s = <<>> THEN <<>>
    ELSE [i \in 1..Head(s)[2] |-> Head(s)[1]] \o Chars(Tail(s))

DigitChars == {"0", "1", "2", "3", "4", "5", "6", "7", "8", "9"}
DigitValue(c) ==
    CASE c = "0" -> 0 [] c = "1" -> 1 [] c = "2" -> 2 [] c = "3" -> 3 [] c = "4" -> 4
      [] c = "5" -> 5 [] c = "6" -> 6 [] c = "7" -> 7 [] c = "8" -> 8 [] c = "9" -> 9

RECURSIVE SkipSpaces(_)
SkipSpaces(cs) == IF cs # <<>> /\ Head(cs) = " " THEN SkipSpaces(Tail(cs)) ELSE cs

(* The value of the longest prefix of digits of cs, after acc; seen tells
   whether a digit was read. *)
RECURSIVE ParseDigits(_, _, _)
ParseDigits(cs, acc, seen) ==
    IF cs # <<>> /\ Head(cs) \in DigitChars
    THEN ParseDigits(Tail(cs), 10 * acc + DigitValue(Head(cs)), TRUE)
    ELSE IF seen THEN Num(acc) ELSE NaN

(* parseInt(v, 10): leading whitespace, an optional sign, then the digits
   up to the first character that is none; NaN when there is no digit. *)
ParseInt(v) ==
    IF ~IsString(v) THEN NaN
    ELSE LET cs == SkipSpaces(Chars(v.s))
             neg == cs # <<>> /\ Head(cs) = "-"
             signed == cs # <<>> /\ Head(cs) \in {"-", "+"}
             r == ParseDigits(IF signed THEN Tail(cs) ELSE cs, 0, FALSE)
         IN IF r = NaN THEN NaN ELSE Num(IF neg THEN 0 - r.n ELSE r.n)

(* parseInt(x, 10) || d *)
ParseIntOr(v, d) ==
    LET r == ParseInt(v) IN IF r = NaN \/ r.n = 0 THEN d ELSE r.n

DefaultPage == 1
DefaultLimit == 10

(* The collection in its natural order. *)
RECURSIVE Ascending(_)
Ascending(S) ==
    IF S = {} THEN <<>>
    ELSE LET m == CHOOSE x \in S : \A y \in S : x <= y
         IN <<m>> \o Ascending(S \ {m})

Natural == Ascending(DOMAIN thoughts)

RECURSIVE Filter(_, _)
Filter(ids, minHearts) ==
    IF ids = <<>> THEN <<>>
    ELSE (IF thoughts[Head(ids)].hearts >= minHearts THEN <<Head(ids)>> ELSE <<>>)
            \o Filter(Tail(ids), minHearts)

SortKey(id, field) ==
    IF field = "hearts" THEN thoughts[id].hearts ELSE thoughts[id].createdAt

(* x goes before the first element it must precede: the sort is stable. *)
RECURSIVE InsertSorted(_, _, _, _)
InsertSorted(x, sorted, field, dir) ==
    IF sorted = <<>> THEN <<x>>
    ELSE IF dir * SortKey(x, field) < dir * SortKey(Head(sorted), field)
         THEN <<x>> \o sorted
         ELSE <<Head(sorted)>> \o InsertSorted(x, Tail(sorted), field, dir)

RECURSIVE SortBy(_, _, _)
SortBy(ids, field, dir) ==
    IF ids = <<>> THEN <<>>
    ELSE InsertSorted(ids[Len(ids)], SortBy(SubSeq(ids, 1, Len(ids) - 1), field, dir),
                      field, dir)

(* sortOptions of src/unnamed/part_001: the field and direction, "none"
   when sort is absent, "invalid" for an unknown value.  A sort word is
   held as one run. *)
SortOptions(sort) ==
    CASE ~Truthy(sort) -> [field |-> "none", dir |-> 0]
      [] sort \in {Str(Rep("createdAt_desc", 1)), Str(Rep("createdAt", 1))} ->
           [field |-> "createdAt", dir |-> -1]
      [] sort = Str(Rep("createdAt_asc", 1)) -> [field |-> "createdAt", dir |-> 1]
      [] sort = Str(Rep("hearts", 1)) -> [field |-> "hearts", dir |-> -1]
      [] OTHER -> [field |-> "invalid", dir |-> 0]

Sorted(ids, o) == IF o.field = "none" THEN ids ELSE SortBy(ids, o.field, o.dir)

Min(a, b) == IF a <= b THEN a ELSE b
Abs(n) == IF n < 0 THEN 0 - n ELSE n

(* Query.skip(n).limit(n) of the store: a negative limit returns its
   absolute value of documents in a single batch. *)
Skip(ids, n) == SubSeq(ids, n + 1, Len(ids))
Limit(ids, n) == SubSeq(ids, 1, Min(Abs(n), Len(ids)))

(* The hearts filter: "none" when the parameter is falsy, "invalid" when
   parseInt gives NaN. *)
HeartsFilter(hearts) ==
    CASE ~Truthy(hearts) -> [kind |-> "none", min |-> 0]
      [] ParseInt(hearts) = NaN -> [kind |-> "invalid", min |-> 0]
      [] OTHER -> [kind |-> "gte", min |-> ParseInt(hearts).n]

Matching(f) == IF f.kind = "gte" THEN Filter(Natural, f.min) ELSE Natural

HeartsInvalid == "Invalid 'hearts' parameter. Must be a number."
SortInvalid ==
    "Invalid 'sort' parameter. Valid options are 'createdAt_desc', 'createdAt_asc', or 'hearts'."

Page(total, page, perPage, ids) ==
    [t |-> "page", totalResults |-> total, currentPage |-> page,
     resultsPerPage |-> perPage, thoughts |-> ids]

GetThoughtsResult(hearts, sort, page, limit, storeOk) ==
    LET f == HeartsFilter(hearts)
        o == SortOptions(sort)
        pageNum == ParseIntOr(page, DefaultPage)
        limitNum == ParseIntOr(limit, DefaultLimit)
        startIndex == (pageNum - 1) * limitNum
    IN CASE f.kind = "invalid" -> Res(400, HeartsInvalid, Null)
         [] o.field = "invalid" -> Res(400, SortInvalid, Null)
         [] ~storeOk \/ startIndex < 0 ->
              Res(500, "Failed to retrieve thoughts.", ErrorBody("MongoError"))
         [] OTHER ->
              LET found == Limit(Skip(Sorted(Matching(f), o), startIndex), limitNum)
              IN Res(200, "Thoughts retrieved successfully.",
                     Page(Len(Matching(f)), pageNum, Len(found), found))

GetThoughts(hearts, sort, page, limit, storeOk) ==
    /\ GetThoughtsResult(hearts, sort, page, limit, storeOk).status # 0
    /\ UNCHANGED vars

(***************************************************************************)
(* GET /thoughts of src/unnamed/part_000, over the array thoughtData: the  *)
(* filters and Array.prototype.sort and slice.                             *)
(***************************************************************************)
(* Array.prototype.slice(start, end): a negative index counts from the end. *)
SliceIndex(i, len) == IF i < 0 THEN Max(len + i, 0) ELSE Min(i, len)
Slice(a, start, end) ==
    SubSeq(a, SliceIndex(start, Len(a)) + 1, SliceIndex(end, Len(a)))

LegacySortOptions(sort) ==
    CASE ~Truthy(sort) -> [field |-> "none", dir |-> 0]
      [] sort = Str(Rep("createdAt", 1)) -> [field |-> "createdAt", dir |-> -1]
      [] sort = Str(Rep("hearts", 1)) -> [field |-> "hearts", dir |-> -1]
      [] OTHER -> [field |-> "invalid", dir |-> 0]

LegacyGetThoughtsResult(hearts, sort, page, limit) ==
    LET f == HeartsFilter(hearts)
        o == LegacySortOptions(sort)
        pageNum == ParseIntOr(page, DefaultPage)
        limitNum == ParseIntOr(limit, DefaultLimit)
        startIndex == (pageNum - 1) * limitNum
        endIndex == pageNum * limitNum
    IN CASE f.kind = "invalid" ->
              Res(400, "Invalid hearts parameter. Must be a number", Null)
         [] o.field = "invalid" ->
              Res(400, "Invalid 'sort' parameter. Valid options are 'createdAt' or 'hearts'.",
                  Null)
         [] OTHER ->
              LET paginated == Slice(Sorted(Matching(f), o), startIndex, endIndex)
              IN Res(200, "", Page(Len(Matching(f)), pageNum, Len(paginated), paginated))

LegacyGetThoughts(hearts, sort, page, limit) ==
    /\ LegacyGetThoughtsResult(hearts, sort, page, limit).status # 0
    /\ UNCHANGED vars

(***************************************************************************)
(* The queries clients send, and the collections they are run on.          *)
(***************************************************************************)
MaxDocs == 3
MaxCreatedAt == 2

Text(cs) == Str([i \in 1..Len(cs) |-> <<cs[i], 1>>])

HeartsParams ==
    {Undefined, Str(<<>>), Text(<<"0">>), Text(<<"1">>), Text(<<"2">>),
     Text(<<"5", "a", "b", "c">>), Text(<<"-", "3">>), Text(<<"a">>), Text(<<" ", "1">>)}
SortParams ==
    {Undefined, Str(Rep("createdAt", 1)), Str(Rep("createdAt_desc", 1)),
     Str(Rep("createdAt_asc", 1)), Str(Rep("hearts", 1)), Str(Rep("message", 1))}
PageParams ==
    {Undefined, Text(<<"0">>), Text(<<"1">>), Text(<<"2">>), Text(<<"-", "1">>),
     Text(<<"a">>)}
LimitParams ==
    {Undefined, Text(<<"0">>), Text(<<"1">>), Text(<<"2">>), Text(<<"-", "2">>),
     Text(<<"a">>)}

Docs ==
    [message : {Str(Rep("a", MinLength))}, hearts : 0..MaxHearts,
     createdAt : 1..MaxCreatedAt, userId : {ObjectIdString(1)}]

QueryInit ==
    /\ users = <<>>
    /\ \E n \in 0..MaxDocs : thoughts \in [1..n -> Docs] /\ nextId = n + 1
    /\ inflight = [s \in Slots |-> Idle]

QueryNext ==
    \/ \E h \in HeartsParams, o \in SortParams, p \in PageParams, l \in LimitParams,
          ok \in BOOLEAN : GetThoughts(h, o, p, l, ok)
    \/ \E h \in HeartsParams, o \in SortParams, p \in PageParams, l \in LimitParams :
          LegacyGetThoughts(h, o, p, l)

QuerySpec == QueryInit /\ [][QueryNext]_vars

(***************************************************************************)
(* Properties.                                                             *)
(***************************************************************************)
Registered == 1..Len(users)

(* The handler of route, started by the middleware for user u. *)
Caller(u, route) == [pc |-> "handler", route |-> route, user |-> u]

Owns(u, id) == thoughts[id].userId = ObjectIdString(u)

(* The token of header is the access token of user u. *)
Presents(header, u) ==
    header # Undefined /\ ReplaceFirst(header.s, Bearer) = <<users[u].accessToken>>

(* The answer to PATCH /thoughts/:id when no other request runs between its
   two store operations. *)
PatchResponse(u, id, message, unlike) ==
    LET f == PatchFindResult(Caller(u, "PATCH /thoughts/:id"), id, message, unlike, TRUE)
    IN IF f.res = Pending THEN PatchUpdateResult(f.slot, TRUE).res ELSE f.res

(* C1: only the owner of a thought deletes it or changes its message; any
   other authenticated user is answered 403 without a further step of the
   handler; a request whose token is no user's is answered 401 by the
   middleware and its handler never starts. *)
C1_Refusals ==
    /\ \A u \in Registered, id \in DOMAIN thoughts :
          LET d == DeleteFindResult(Caller(u, "DELETE /thoughts/:id"), id, TRUE)
          IN /\ ~Owns(u, id) => d.res.status = 403 /\ d.slot = Idle
             /\ Owns(u, id) => d.res = Pending /\ d.slot.pc = "delete" /\ d.slot.user = u
             /\ \A m \in Messages \ {Undefined}, un \in Unlikes :
                   LET f == PatchFindResult(Caller(u, "PATCH /thoughts/:id"), id, m, un, TRUE)
                   IN /\ ~Owns(u, id) => f.res.status = 403 /\ f.slot = Idle
                      /\ Owns(u, id) => f.res = Pending /\ f.slot.pc = "update"
                                           /\ f.slot.user = u
    /\ \A h \in Headers, r \in AsyncRoutes :
          (\A u \in Registered : ~Presents(h, u)) =>
             /\ ReceiveResult(r, h, TRUE).res.status = 401
             /\ ReceiveResult(r, h, TRUE).slot = Idle

C1_OwnerStep ==
    \A id \in DOMAIN thoughts :
       (id \notin DOMAIN thoughts' \/ thoughts'[id].message # thoughts[id].message) =>
          \E s \in Slots :
             /\ inflight[s].pc \in {"delete", "update"}
             /\ inflight[s].id = id
             /\ inflight'[s] = Idle
             /\ Owns(inflight[s].user, id)

(* C1: the refusals hold in every state, and every step that deletes a
   thought or changes its message is the owner's. *)
C1_OwnerOnly == [](C1_Refusals) /\ [][C1_OwnerStep]_vars

(* An owner's DELETE has passed the ownership check while another user's
   request on the same thought is with its handler. *)
C1_Witness ==
    \E s1, s2 \in Slots :
       /\ inflight[s1].pc = "delete"
       /\ inflight[s1].id \in DOMAIN thoughts
       /\ inflight[s2].pc = "handler"
       /\ inflight[s2].route \in {"DELETE /thoughts/:id", "PATCH /thoughts/:id"}
       /\ inflight[s2].user # inflight[s1].user

(* C2: the heart count of every stored thought is an integer >= 0, and so
   is every count an unlike in flight is about to write; an unlike of a
   thought with 0 hearts answers 200 with the thought as it is and writes
   nothing. *)
C2_HeartsNonNegative ==
    /\ \A id \in DOMAIN thoughts :
          /\ thoughts[id].hearts \in Nat
          /\ thoughts[id].hearts = 0 =>
                \A u \in Registered :
                   LET f == PatchFindResult(Caller(u, "PATCH /thoughts/:id"), id,
                                            Undefined, JSTrue, TRUE)
                   IN /\ f.res.status = 200
                      /\ f.res.response.hearts = 0
                      /\ f.slot = Idle
    /\ \A s \in Slots :
          (inflight[s].pc = "update" /\ "hearts" \in inflight[s].updateFields.keys) =>
             inflight[s].updateFields.hearts.n \in Nat

(* An unlike in flight is about to write 0 to a thought that another unlike
   has brought to 0 since it read the count. *)
C2_Witness ==
    \E s \in Slots :
       /\ inflight[s].pc = "update"
       /\ "hearts" \in inflight[s].updateFields.keys
       /\ inflight[s].updateFields.hearts.n = 0
       /\ inflight[s].id \in DOMAIN thoughts
       /\ thoughts[inflight[s].id].hearts = 0

(* C3: a like of an existing thought answers 200, with no token asked for,
   raises the stored heart count by exactly 1 and answers with the raised
   count; two likes one after the other raise it by exactly 2, and leave
   everything else as it was. *)
C3_LikeTwice ==
    \A id \in DOMAIN thoughts :
       LET first == LikeResult(thoughts, id, TRUE)
           second == LikeResult(first.thoughts, id, TRUE)
       IN /\ first.res.status = 200 /\ second.res.status = 200
          /\ first.res.response.hearts = thoughts[id].hearts + 1
          /\ first.thoughts[id].hearts = thoughts[id].hearts + 1
          /\ second.res.response.hearts = thoughts[id].hearts + 2
          /\ second.thoughts[id].hearts = thoughts[id].hearts + 2
          /\ second.thoughts = [thoughts EXCEPT ![id].hearts = @ + 2]

C3_LikeStep ==
    (thoughts' # thoughts /\ UNCHANGED inflight) =>
       \E id \in DOMAIN thoughts :
          /\ thoughts' = [thoughts EXCEPT ![id].hearts = @ + 1]
          /\ thoughts' = LikeResult(thoughts, id, TRUE).thoughts

(* C3: two likes of a thought add exactly 2 to its hearts, and each like
   step adds exactly 1. *)
C3_Likes == [](C3_LikeTwice) /\ [][C3_LikeStep]_vars

(* A thought has been liked twice. *)
C3_Witness ==
    \E id \in DOMAIN thoughts :
       thoughts[id].hearts = 2 /\ \A s \in Slots : inflight[s] = Idle

(* Every updateFields a PATCH can hold at its second store operation. *)
AllUpdateFields ==
    {[keys |-> k,
      message |-> IF "message" \in k THEN m ELSE Undefined,
      hearts |-> IF "hearts" \in k THEN Num(n) ELSE Undefined] :
        k \in (SUBSET {"message", "hearts"}) \ {{}},
        m \in Messages \ {Undefined}, n \in 0..MaxHearts}

Updates(u, id) ==
    {[pc |-> "update", route |-> "PATCH /thoughts/:id", user |-> u, id |-> id,
      updateFields |-> f] : f \in AllUpdateFields}

Deletes(u, id) ==
    [pc |-> "delete", route |-> "DELETE /thoughts/:id", user |-> u, id |-> id]

(* C4: a handler that answers anything but 200 or 201 has changed neither
   collection, whatever the request and wherever the failure is; a step
   that changes a collection is the last step of a request, and its answer
   is 200 or 201. *)
C4_FailureWritesNothing ==
    /\ \A n \in Names, e \in Emails, p \in Passwords, ok \in BOOLEAN :
          LET r == PostUsersResult(n, e, p, ok)
          IN ~Success(r.res) => r.users = users
    /\ \A ok \in BOOLEAN, id \in IdParams :
          LET r == LikeResult(thoughts, id, ok)
          IN ~Success(r.res) => r.thoughts = thoughts
    /\ \A ok \in BOOLEAN, u \in Registered :
          /\ \A m \in Messages :
                LET r == PostThoughtsResult(Caller(u, "POST /thoughts"), m, ok)
                IN ~Success(r.res) => r.thoughts = thoughts /\ r.nextId = nextId
          /\ \A id \in ThoughtIds :
                /\ LET r == DeleteRemoveResult(Deletes(u, id), ok)
                   IN ~Success(r.res) => r.thoughts = thoughts
                /\ \A h \in Updates(u, id) :
                      LET r == PatchUpdateResult(h, ok)
                      IN ~Success(r.res) => r.thoughts = thoughts

C4_WritingStep ==
    /\ users' # users =>
          /\ UNCHANGED <<thoughts, inflight>>
          /\ \E n \in Names, e \in Emails, p \in Passwords :
                /\ Success(PostUsersResult(n, e, p, TRUE).res)
                /\ users' = PostUsersResult(n, e, p, TRUE).users
    /\ thoughts' # thoughts =>
          /\ UNCHANGED users
          /\ \/ /\ UNCHANGED inflight
                /\ \E id \in IdParams :
                      /\ Success(LikeResult(thoughts, id, TRUE).res)
                      /\ thoughts' = LikeResult(thoughts, id, TRUE).thoughts
             \/ \E s \in Slots :
                   /\ inflight[s] # Idle /\ inflight'[s] = Idle
                   /\ CASE inflight[s].pc = "update" ->
                             /\ Success(PatchUpdateResult(inflight[s], TRUE).res)
                             /\ thoughts' = PatchUpdateResult(inflight[s], TRUE).thoughts
                        [] inflight[s].pc = "delete" ->
                             /\ Success(DeleteRemoveResult(inflight[s], TRUE).res)
                             /\ thoughts' = DeleteRemoveResult(inflight[s], TRUE).thoughts
                        [] OTHER ->
                             /\ inflight[s].route = "POST /thoughts"
                             /\ \E m \in Messages :
                                   /\ Success(PostThoughtsResult(inflight[s], m, TRUE).res)
                                   /\ thoughts' =
                                         PostThoughtsResult(inflight[s], m, TRUE).thoughts

(* C4: no answer other than 200 or 201 comes with a change of the User or
   Thought collection, and only the answering step of a request writes. *)
C4_NoPartialFailure == [](C4_FailureWritesNothing) /\ [][C4_WritingStep]_vars

(* A PATCH carrying an unlike and a message that fails validation is about
   to run its update. *)
C4_Witness ==
    \E s \in Slots :
       /\ inflight[s].pc = "update"
       /\ inflight[s].updateFields.keys = {"message", "hearts"}
       /\ UpdateError(inflight[s].updateFields) # "none"
       /\ inflight[s].id \in DOMAIN thoughts

(* C5: for every header the middleware has exactly one of four outcomes: no
   token, 401 "No access token provided"; a failed lookup, 500; a token that
   is no user's, 401 "Access token invalid or missing"; the token of a user,
   that user attached and next called.  A handler runs in the last case
   only, and for that user. *)
C5_Outcome(header, storeOk) ==
    LET a == Authenticate(header, storeOk)
        holders == {u \in Registered : Presents(header, u)}
    IN CASE header = Undefined \/ ReplaceFirst(header.s, Bearer) = <<>> ->
              a.res = Res(401, AuthNoToken, Null) /\ ~a.next
         [] ~storeOk -> a.res.status = 500 /\ ~a.next
         [] holders = {} -> a.res = Res(401, AuthInvalid, Null) /\ ~a.next
         [] OTHER -> a.next /\ a.res = Pending /\ holders = {a.user}

C5_Middleware ==
    /\ \A h \in Headers, ok \in BOOLEAN :
          /\ C5_Outcome(h, ok)
          /\ \A r \in AsyncRoutes :
                ReceiveResult(r, h, ok).slot =
                   IF Authenticate(h, ok).next
                   THEN Caller(Authenticate(h, ok).user, r)
                   ELSE Idle
          /\ GetSecretsResult(h, ok).status = 200 <=> Authenticate(h, ok).next
    /\ \A s \in Slots : inflight[s] # Idle => inflight[s].user \in Registered

(* The handler of a protected route runs for the second user registered. *)
C5_Witness ==
    \E s \in Slots : inflight[s].pc = "handler" /\ inflight[s].user = 2

(* The stored messages are trimmed strings of MinLength..MaxLength characters. *)
StoredMessagesInBounds ==
    \A id \in DOMAIN thoughts :
       /\ IsString(thoughts[id].message)
       /\ Trim(thoughts[id].message.s) = thoughts[id].message.s
       /\ Length(thoughts[id].message.s) \in MinLength..MaxLength

(* The message is null, or a string shorter than MinLength or longer than
   MaxLength once trimmed. *)
OutOfBounds(m) ==
    \/ m = Null
    \/ IsString(m) /\ Length(Trim(m.s)) \notin MinLength..MaxLength

(* C6, as claimed: every stored message has 5 to 140 characters after
   trimming; a POST /thoughts or a PATCH /thoughts/:id whose message is
   missing, null, shorter than 5 or longer than 140 characters answers 400
   and leaves the store unchanged. *)
C6_MessageBounds ==
    /\ StoredMessagesInBounds
    /\ \A u \in Registered, m \in Messages :
          (m = Undefined \/ OutOfBounds(m)) =>
             /\ LET r == PostThoughtsResult(Caller(u, "POST /thoughts"), m, TRUE)
                IN r.res.status = 400 /\ r.thoughts = thoughts
             /\ \A id \in DOMAIN thoughts, un \in Unlikes :
                   Owns(u, id) => PatchResponse(u, id, m, un).status = 400

(* C6, amended: on PATCH /thoughts/:id a missing message is no validation
   failure (the answer is 200); the owner's PATCH whose message is null,
   shorter than 5 or longer than 140 characters after trimming answers 400,
   with or without unlike, and writes nothing. *)
C6_MessageBoundsAmended ==
    /\ StoredMessagesInBounds
    /\ \A u \in Registered, m \in Messages :
          /\ (m = Undefined \/ OutOfBounds(m)) =>
                LET r == PostThoughtsResult(Caller(u, "POST /thoughts"), m, TRUE)
                IN r.res.status = 400 /\ r.thoughts = thoughts /\ r.nextId = nextId
          /\ (m # Undefined /\ ~OutOfBounds(m)) =>
                PostThoughtsResult(Caller(u, "POST /thoughts"), m, TRUE).res.status = 201
          /\ \A id \in DOMAIN thoughts, un \in Unlikes :
                Owns(u, id) =>
                   /\ OutOfBounds(m) =>
                         LET f == PatchFindResult(Caller(u, "PATCH /thoughts/:id"),
                                                  id, m, un, TRUE)
                         IN /\ f.res = Pending
                            /\ PatchUpdateResult(f.slot, TRUE).res.status = 400
                            /\ PatchUpdateResult(f.slot, TRUE).thoughts = thoughts
                   /\ ~OutOfBounds(m) => PatchResponse(u, id, m, un).status = 200
    /\ \A s \in Slots :
          (inflight[s].pc = "update" /\ OutOfBounds(inflight[s].updateFields.message)) =>
             \A ok \in BOOLEAN :
                /\ PatchUpdateResult(inflight[s], ok).res.status = 400
                /\ PatchUpdateResult(inflight[s], ok).thoughts = thoughts

(* A thought holds a message of MaxLength characters, sent with surrounding
   whitespace, while an update with a message of MaxLength + 1 is in flight. *)
C6_Witness ==
    \E s \in Slots :
       /\ inflight[s].pc = "update"
       /\ inflight[s].updateFields.message = Str(Rep("b", MaxLength + 1))
       /\ inflight[s].id \in DOMAIN thoughts
       /\ thoughts[inflight[s].id].message = Str(Rep("b", MaxLength))

(* The ids generated so far. *)
Generated == 1..(nextId - 1)

(* C7: a thought that is gone stays gone.  The owner's DELETE, when its
   store operation succeeds, answers 200 and the thought is not in the
   collection; from then on GET /thoughts/:id answers 404 (never 200, also
   when the lookup fails), and no step of any request, in flight during the
   delete or sent later, puts a thought back under an id already used. *)
C7_Gone ==
    /\ \A id \in Generated :
          ~Exists(id) =>
             /\ GetThoughtResult(id, TRUE).status = 404
             /\ GetThoughtResult(id, FALSE).status # 200
    /\ \A s \in Slots :
          inflight[s].pc = "delete" =>
             /\ DeleteRemoveResult(inflight[s], TRUE).res.status = 200
             /\ inflight[s].id \notin DOMAIN DeleteRemoveResult(inflight[s], TRUE).thoughts

C7_StaysGoneStep ==
    /\ \A id \in Generated : ~Exists(id) => id \notin DOMAIN thoughts'
    /\ \A id \in DOMAIN thoughts' \ DOMAIN thoughts : id = nextId /\ nextId' = nextId + 1
    /\ nextId' >= nextId

(* C7: a deleted thought is answered 404 by GET /thoughts/:id in every
   state, and no step brings it back. *)
C7_DeletedStaysDeleted == [](C7_Gone) /\ [][C7_StaysGoneStep]_vars

(* A thought has been deleted while a PATCH that read it before is about to
   run its update, and a DELETE of it is in flight too. *)
C7_Witness ==
    \E id \in Generated :
       /\ ~Exists(id)
       /\ \E s \in Slots : inflight[s].pc = "update" /\ inflight[s].id = id

(* The records of seq at the 0-based positions from..(to - 1). *)
Window(seq, from, to) == SubSeq(seq, Max(from, 0) + 1, Min(to, Len(seq)))

(* The claim of C8 about one answer of GET /thoughts, for the page and limit
   the handler took from the request. *)
C8_PageOf(res, matching, sorted, page, limit) ==
    res.status = 200 =>
       /\ res.response.resultsPerPage <= limit
       /\ res.response.resultsPerPage = Len(res.response.thoughts)
       /\ res.response.thoughts = Window(sorted, (page - 1) * limit, page * limit)
       /\ res.response.totalResults = Len(matching)

(* C8: for every integer page and limit GET /thoughts accepts, in the
   database-backed and in the in-memory server: resultsPerPage <= limit, the
   page is the records at positions [(page-1)*limit, page*limit) of the
   filtered and sorted result, and totalResults counts the records matching
   the filter. *)
C8_Pagination ==
    \A h \in HeartsParams, o \in SortParams, p \in PageParams, l \in LimitParams :
       LET page == ParseIntOr(p, DefaultPage)
           limit == ParseIntOr(l, DefaultLimit)
           matching == Matching(HeartsFilter(h))
       IN /\ C8_PageOf(GetThoughtsResult(h, o, p, l, TRUE), matching,
                       Sorted(matching, SortOptions(o)), page, limit)
          /\ C8_PageOf(LegacyGetThoughtsResult(h, o, p, l), matching,
                       Sorted(matching, LegacySortOptions(o)), page, limit)

(* The text is one or more decimal digits. *)
IsDecimal(v) ==
    /\ IsString(v)
    /\ Chars(v.s) # <<>>
    /\ \A i \in 1..Len(Chars(v.s)) : Chars(v.s)[i] \in DigitChars

(* C9: whenever the hearts parameter of GET /thoughts is present and is not
   the decimal text of a non-negative integer, the answer is 400 with the
   message "Invalid 'hearts' parameter. Must be a number.". *)
C9_HeartsRejected ==
    \A h \in HeartsParams, o \in SortParams, p \in PageParams, l \in LimitParams,
       ok \in BOOLEAN :
       (h # Undefined /\ ~IsDecimal(h)) =>
          GetThoughtsResult(h, o, p, l, ok) = Res(400, HeartsInvalid, Null)

(* C10: POST /users without name, email or password answers 400 with the
   errors of the fields and creates no user; it answers 500 only when the
   store fails. *)
C10_MissingField ==
    \A n \in Names, e \in Emails, p \in Passwords, ok \in BOOLEAN :
       LET r == PostUsersResult(n, e, p, ok)
       IN /\ (n = Undefined \/ e = Undefined \/ p = Undefined) =>
                /\ r.res.status = 400
                /\ r.res.response.t = "errors"
                /\ r.users = users
          /\ r.res.status = 500 => ~ok

(* The PATCH /thoughts/:id of user u on thought id when no other request
   runs between its two store operations: the answer and the collection
   it leaves. *)
PatchOutcome(u, id, message, unlike) ==
    LET f == PatchFindResult(Caller(u, "PATCH /thoughts/:id"), id, message, unlike, TRUE)
    IN IF f.res = Pending
       THEN PatchUpdateResult(f.slot, TRUE)
       ELSE [res |-> f.res, thoughts |-> thoughts]

(* C11, as claimed: unlike lowers the heart count by 1, floored at 0, for
   every authenticated caller, owner or not, with or without a (valid)
   message in the same request; a request with neither answers 200 with the
   thought as it is and writes nothing. *)
C11_UnlikeIndependent ==
    \A u \in Registered, id \in DOMAIN thoughts :
       /\ \A m \in {x \in Messages : x = Undefined \/ ~OutOfBounds(x)} :
             LET r == PatchOutcome(u, id, m, JSTrue)
             IN /\ r.res.status = 200
                /\ r.res.response.hearts = Max(0, thoughts[id].hearts - 1)
                /\ r.thoughts[id].hearts = Max(0, thoughts[id].hearts - 1)
       /\ LET r == PatchOutcome(u, id, Undefined, Undefined)
          IN r.res.status = 200 /\ r.res.response = ThoughtBody(id, thoughts[id])
                /\ r.thoughts = thoughts

(* C11, amended: the unlike of a request without a message is applied for
   every authenticated caller; in a request with a message it is applied
   for the owner, together with the message; a caller who is not the owner
   and sends a message is answered 403 and the unlike of that request is
   not applied; a request with neither answers 200 with the thought as it
   is, at its first store operation, and writes nothing. *)
C11_UnlikeIndependentAmended ==
    \A u \in Registered, id \in DOMAIN thoughts :
       LET hearts == thoughts[id].hearts
           lowered == [thoughts EXCEPT ![id].hearts = Max(0, hearts - 1)]
       IN /\ LET r == PatchOutcome(u, id, Undefined, JSTrue)
             IN /\ r.res.status = 200
                /\ r.res.response.hearts = Max(0, hearts - 1)
                /\ r.res.response.message = thoughts[id].message
                /\ r.thoughts = lowered
          /\ \A m \in Messages \ {Undefined}, un \in Unlikes :
                LET r == PatchOutcome(u, id, m, un)
                IN /\ ~Owns(u, id) =>
                         /\ r.res.status = 403
                         /\ r.thoughts = thoughts
                         /\ PatchFindResult(Caller(u, "PATCH /thoughts/:id"), id, m, un,
                                            TRUE).slot = Idle
                   /\ (Owns(u, id) /\ ~OutOfBounds(m)) =>
                         /\ r.res.status = 200
                         /\ r.thoughts =
                               [(IF un = JSTrue THEN lowered ELSE thoughts)
                                   EXCEPT ![id].message = CastMessage(m)]
                   /\ (Owns(u, id) /\ OutOfBounds(m)) =>
                         r.res.status = 400 /\ r.thoughts = thoughts
          /\ LET f == PatchFindResult(Caller(u, "PATCH /thoughts/:id"), id, Undefined,
                                      Undefined, TRUE)
             IN f.res.status = 200 /\ f.res.response = ThoughtBody(id, thoughts[id])
                   /\ f.slot = Idle

(* The unlike of a user who does not own the thought is about to be
   written. *)
C11_Witness ==
    \E s \in Slots :
       /\ inflight[s].pc = "update"
       /\ inflight[s].updateFields.keys = {"hearts"}
       /\ inflight[s].id \in DOMAIN thoughts
       /\ ~Owns(inflight[s].user, inflight[s].id)
       /\ thoughts[inflight[s].id].hearts = inflight[s].updateFields.hearts.n + 1

(* C12: no like is lost.  With every like adding exactly 1, the stored
   count is the initial count plus the likes minus the unlikes answered
   with a decrement, under every interleaving, only if every unlike that is
   about to be written and answered 200 lowers the count stored at that
   moment by exactly 1, whatever has been written since it read the
   thought. *)
C12_NoLikeLost ==
    \A s \in Slots :
       (/\ inflight[s].pc = "update"
        /\ "hearts" \in inflight[s].updateFields.keys
        /\ Exists(inflight[s].id)
        /\ UpdateError(inflight[s].updateFields) = "none") =>
          LET r == PatchUpdateResult(inflight[s], TRUE)
          IN /\ r.res.status = 200
             /\ r.thoughts[inflight[s].id].hearts = thoughts[inflight[s].id].hearts - 1

(* C13: a DELETE that has passed the ownership check and now runs its
   delete answers 200 with the deleted thought when the thought is still
   stored, and 404 when another DELETE has removed it in between: never 200
   with null. *)
C13_OneDeleteAnswers200 ==
    \A s \in Slots :
       inflight[s].pc = "delete" =>
          LET r == DeleteRemoveResult(inflight[s], TRUE)
          IN IF Exists(inflight[s].id)
             THEN r.res.status = 200 /\ r.res.response # Null
             ELSE r.res.status = 404

====
